---- MODULE Spec2Model ----
(***************************************************************************)
(* BoardGame-Scout: the user-based collaborative filtering of              *)
(* src/BoardGame-Scout.py (build_user_similarity_matrix, recommend_games)  *)
(* over the ratings relation written by src/fetch_greek_ratings.py         *)
(* (fetch_guild_members, fetch_user_ratings, save_user_ratings), the       *)
(* batch fetch of src/enrich_bgg_db_v3.py (fetch_bgg_details) and the      *)
(* buttons and views of the app's page.                                    *)
(*                                                                         *)
(* Spec: the app over a stored relation of NumUsers users.  SpecStore: the *)
(* ingestion job filling the store while the app runs.  SpecCrowd: the app *)
(* over a guild of more than NEIGHBOURS users.  SpecIngest: the ingestion  *)
(* job alone, against faulty servers and failing writes.  SpecGuild:       *)
(* fetch_guild_members, request by request, with fairness.  SpecEnrich:    *)
(* the batches of the enrichment job.  SpecUI: the runs of the app's       *)
(* script, one per click or widget change.                                 *)
(*                                                                         *)
(* Numbers.  Ratings are whole numbers (0 stands for "no row").  A user's  *)
(* mean-centred rating is kept multiplied by that user's number of         *)
(* ratings, so that it is an integer; cosine similarity does not depend on *)
(* a positive factor of a row.  A similarity is kept in units of           *)
(* 1/SimScale, truncated towards zero.  A predicted rating is kept as the  *)
(* pair (w_sum, sim_sum) of its IEEE quotient: a zero sim_sum gives inf,   *)
(* -inf or NaN as the division of floats does.                             *)
(***************************************************************************)
EXTENDS Integers, Sequences, FiniteSets, TLC

\* ---------------------------------------------------------------- bounds
NumUsers == 4
NumGames == 8
MaxN == 1
MaxCalls == 2
MaxMembers == 3
NumCrowd == 27
NumMixes == 3
NumTargets == 3
SimScale == 100
NumMembers == 2    \* users the ingestion job alone fetches
GuildPages == 3    \* pages of the guild that list members
MaxPage == 6       \* page MaxPage stands for every page from MaxPage on
NumBatches == 3    \* batches of new games the enrichment job fetches
MaxMatches == 120  \* games in boardgames.db, all of which match no filter
MaxFail == 2       \* a failing write is the first or the second of a batch

\* ------------------------------------------------------ program constants
MIN_OVERLAP == 5
NEIGHBOURS == 25
RECOMMEND_COUNT == 20

Users == 1..NumUsers
Games == 1..NumGames

\* The values of n the callers pass: small ones, and the UI's RECOMMEND_COUNT.
Counts == (1..MaxN) \cup {RECOMMEND_COUNT}

VARIABLES
    ratings,    \* ratings relation: ratings[u][g] = rating of u for g, 0 = no row
    games,      \* ids of the games relation (each id has a title)
    simCache,   \* st.cache_data of build_user_similarity_matrix
    recCache,   \* st.cache_data of recommend_games, one entry per (username, n)
    ret,        \* what the last call of recommend_games returned or raised
    calls,      \* number of calls made
    db,         \* greek_user_ratings.db: the rows of table ratings, its
                \* AUTOINCREMENT sequence, and table users (ratings_count)
    saves,      \* the committed calls of save_user_ratings, oldest first
    processed,  \* number of guild members the ingestion job has processed
    call,       \* what the last fetch and save of the ingestion job did
    guild,      \* fetch_guild_members: its locals and the requests it sent
    enrich,     \* enrich_bgg_db_v3: the batch loop of main and the
                \* locals of fetch_bgg_details
    session_state,  \* st.session_state of the app
    rendered    \* what the last run of the app's script put on the page

store == <<db, saves, processed>>

jobs == <<call, guild, enrich>>

ui == <<session_state, rendered>>

vars == <<ratings, games, simCache, recCache, ret, calls, db, saves, processed,
          call, guild, enrich, session_state, rendered>>

\* ------------------------------------------------------------- arithmetic
RECURSIVE SumTo(_, _)
SumTo(F(_), n) == IF n = 0 THEN 0 ELSE F(n) + SumTo(F, n - 1)

Abs(x) == IF x < 0 THEN -x ELSE x

\* floor of the square root of q, for 0 <= q <= SimScale^2
RECURSIVE Bisect(_, _, _)
Bisect(lo, hi, q) ==
    IF lo = hi THEN lo
    ELSE LET mid == (lo + hi + 1) \div 2
         IN  IF mid * mid <= q THEN Bisect(mid, hi, q) ELSE Bisect(lo, mid - 1, q)

ISqrt(q) == Bisect(0, SimScale, q)

\* --------------------------------------------------------- ratings inputs
\* A user's ratings of games 1..Len(p); 0 = the user has no row for the game.
Profiles ==
    { << >>,
      <<9, 7, 5, 8, 6>>,
      <<8, 6, 6, 9, 5>>,
      <<5, 4, 5, 4, 0, 5, 4>>,
      <<5, 4, 4, 5, 4, 4, 5>>,
      <<4, 5, 5, 4, 5, 5, 4>>,
      <<4, 4, 4, 4, 4, 5, 5, 5>> }

ProfileRow(p) == [g \in Games |-> IF g <= Len(p) THEN p[g] ELSE 0]

Relations == { [u \in Users |-> ProfileRow(a[u])] : a \in [Users -> Profiles] }

Catalogs == { Games, Games \ {NumGames} }

\* A guild of NumCrowd users who all share five games or more: user u of mix k
\* has one of four profiles.
CrowdProfiles ==
    << <<5, 4, 5, 4, 0, 5, 4>>,
       <<5, 4, 4, 5, 4, 4, 5>>,
       <<4, 5, 5, 4, 5, 5, 4>>,
       <<4, 4, 4, 4, 4, 5, 5, 5>> >>

Crowd == 1..NumCrowd

CrowdRelations ==
    { [u \in Crowd |-> ProfileRow(CrowdProfiles[((u + k * (u \div 3)) % 4) + 1])] :
        k \in 1..NumMixes }

\* ------------------------------------------- build_user_similarity_matrix
\* ratings.groupby("username")["rating"]: the number and the sum of u's ratings
RatingCount(R, u) == SumTo(LAMBDA g : IF R[u][g] > 0 THEN 1 ELSE 0, NumGames)
RatingSum(R, u) == SumTo(LAMBDA g : R[u][g], NumGames)

\* rating_c = rating - user_mean, times the user's number of ratings
rating_c(R, u, g) == R[u][g] * RatingCount(R, u) - RatingSum(R, u)

\* the usernames of the relation: the index of the pivot table, ascending
PivotIndex(R) == { u \in DOMAIN R : \E g \in Games : R[u][g] > 0 }

\* ratings.pivot(...).fillna(0): a game the user did not rate holds 0
pivot(R) ==
    [u \in DOMAIN R |-> [g \in Games |->
        IF R[u][g] > 0 THEN rating_c(R, u, g) ELSE 0]]

Dot(x, y) == SumTo(LAMBDA g : x[g] * y[g], NumGames)

\* overlap = (pivot != 0); overlap @ overlap.T
overlap_counts(x, y) ==
    SumTo(LAMBDA g : IF x[g] # 0 /\ y[g] # 0 THEN 1 ELSE 0, NumGames)

\* the rows of the pivot table, with their index and their squared norm
PivotRows(R) ==
    { [username |-> u, row |-> p[u], norm2 |-> Dot(p[u], p[u])] :
        u \in PivotIndex(R), p \in {pivot(R)} }

\* sklearn cosine_similarity of two rows: the dot product of the normalised
\* rows, a row of norm 0 staying 0
cosine_similarity(x, y) ==
    LET d == Dot(x.row, y.row)
        n == x.norm2 * y.norm2
    IN  IF n = 0 THEN 0
        ELSE LET k == ISqrt(((SimScale * Abs(d)) * (SimScale * Abs(d))) \div n)
             IN  IF d < 0 THEN -k ELSE k

\* the melted similarity and overlap frames merged on (username, other_user)
MergedFrame(R) ==
    { [username |-> x.username, other_user |-> y.username,
       similarity |-> cosine_similarity(x, y),
       overlap |-> overlap_counts(x.row, y.row)] :
      <<x, y>> \in PivotRows(R) \X PivotRows(R) }

\* variants of DropSelf: one direction of each pair only; nothing dropped
DropSelfUpper(F) == { e \in F : e.username < e.other_user }
DropSelfNone(F) == F

DropSelf(F) == { e \in F : e.username # e.other_user }

\* variant of OverlapFilter: the threshold moves with the calls made so far
OverlapFilterDrifting(F) == { e \in F : e.overlap >= MIN_OVERLAP + calls }

\* variant of OverlapFilter: the threshold one too low
OverlapFilterOffByOne(F) == { e \in F : e.overlap >= MIN_OVERLAP - 1 }

OverlapFilter(F) == { e \in F : e.overlap >= MIN_OVERLAP }

\* variant of EdgeBefore: similarity ascending
EdgeBeforeAscending(e, f) ==
    \/ e.username < f.username
    \/ /\ e.username = f.username
       /\ \/ e.similarity < f.similarity
          \/ e.similarity = f.similarity /\ e.other_user < f.other_user

\* sort_values(["username", "similarity"], ascending=[True, False]); the sort
\* of several keys is stable, and the melted frame is in other_user order
EdgeBefore(e, f) ==
    \/ e.username < f.username
    \/ /\ e.username = f.username
       /\ \/ e.similarity > f.similarity
          \/ e.similarity = f.similarity /\ e.other_user < f.other_user

\* the frame in sorted order: an edge's place is the number of edges before it
SortEdges(F) ==
    LET place == { <<Cardinality({ f \in F : EdgeBefore(f, e) }) + 1, e>> : e \in F }
    IN  [i \in 1..Cardinality(F) |-> (CHOOSE p \in place : p[1] = i)[2]]

Edge(e) == [username |-> e.username, other_user |-> e.other_user,
            similarity |-> e.similarity]

\* cosine_similarity refuses a matrix without rows (check_array, ValueError)
BuildRaises(R) == PivotIndex(R) = {}

build_user_similarity_matrix(R) ==
    LET sorted == SortEdges(OverlapFilter(DropSelf(MergedFrame(R))))
    IN  [i \in 1..Len(sorted) |-> Edge(sorted[i])]

\* -------------------------------------------------------- recommend_games
head(s, n) == SubSeq(s, 1, IF n < Len(s) THEN n ELSE Len(s))

Range(s) == { s[i] : i \in DOMAIN s }

RECURSIVE SumRows(_, _)
SumRows(F(_), S) ==
    IF S = {} THEN 0
    ELSE LET r == CHOOSE x \in S : TRUE IN F(r) + SumRows(F, S \ {r})

\* variant of Neighbours: the last NEIGHBOURS edges of the user are taken
NeighboursLast(sim_df, username) ==
    LET mine == SelectSeq(sim_df, LAMBDA e : e.username = username)
    IN  SubSeq(mine, IF Len(mine) > NEIGHBOURS THEN Len(mine) - NEIGHBOURS + 1 ELSE 1,
               Len(mine))

\* sim_df[sim_df["username"] == username].head(NEIGHBOURS)
Neighbours(sim_df, username) ==
    head(SelectSeq(sim_df, LAMBDA e : e.username = username), NEIGHBOURS)

\* the game ids of the rows of the active user
Seen(R, username) == { g \in Games : R[username][g] > 0 }

\* variant of NeighRates: the games seen by the active user are kept
NeighRatesKeepSeen(R, neighbours, seen) ==
    { [username |-> v, game_id |-> g, rating |-> R[v][g]] :
        v \in { e.other_user : e \in Range(neighbours) }, g \in Games }
    \ { [username |-> v, game_id |-> g, rating |-> 0] : v \in DOMAIN R, g \in Games }

\* all_rates[username.isin(neighbours["other_user"]) & ~game_id.isin(seen)]
NeighRates(R, neighbours, seen) ==
    { [username |-> v, game_id |-> g, rating |-> R[v][g]] :
        v \in { e.other_user : e \in Range(neighbours) }, g \in Games \ seen }
    \ { [username |-> v, game_id |-> g, rating |-> 0] : v \in DOMAIN R, g \in Games }

\* variant of MergeNeighbours: the rating is not weighted by the similarity
MergeNeighboursUnweighted(neigh_rates, neighbours) ==
    { [username |-> r.username, game_id |-> r.game_id, rating |-> r.rating,
       similarity |-> e.similarity, weighted |-> r.rating] :
        <<r, e>> \in { x \in neigh_rates \X Range(neighbours) :
                         x[1].username = x[2].other_user } }

\* neigh_rates.merge(neighbours, left_on="username", right_on="other_user"),
\* with weighted = rating * similarity
MergeNeighbours(neigh_rates, neighbours) ==
    { [username |-> r.username, game_id |-> r.game_id, rating |-> r.rating,
       similarity |-> e.similarity, weighted |-> r.rating * e.similarity] :
        <<r, e>> \in { x \in neigh_rates \X Range(neighbours) :
                         x[1].username = x[2].other_user } }

\* groupby(["game_id"]).agg(w_sum, sim_sum, count)
Aggregate(M) ==
    { LET rows == { r \in M : r.game_id = g }
      IN  [game_id |-> g,
           w_sum |-> SumRows(LAMBDA r : r.weighted, rows),
           sim_sum |-> SumRows(LAMBDA r : r.similarity, rows),
           count |-> Cardinality(rows)] :
        g \in { r.game_id : r \in M } }

\* variant of MinSupport: two neighbours are enough
MinSupportTwo(recs) == { c \in recs : c.count >= 2 }

\* recs[recs["count"] >= 3]
MinSupport(recs) == { c \in recs : c.count >= 3 }

\* pred = w_sum / sim_sum, a quotient of floats
IsNaN(c) == c.sim_sum = 0 /\ c.w_sum = 0
IsPosInf(c) == c.sim_sum = 0 /\ c.w_sum > 0
IsNegInf(c) == c.sim_sum = 0 /\ c.w_sum < 0
IsFinite(c) == c.sim_sum # 0
Num(c) == IF c.sim_sum < 0 THEN -c.w_sum ELSE c.w_sum
Den(c) == Abs(c.sim_sum)

\* pred of a >= pred of b, as floats compare (false when either is NaN)
PredGE(a, b) ==
    /\ ~IsNaN(a)
    /\ ~IsNaN(b)
    /\ \/ IsPosInf(a)
       \/ IsNegInf(b)
       \/ IsFinite(a) /\ IsFinite(b) /\ Num(a) * Den(b) >= Num(b) * Den(a)

\* sort_values("pred", ascending=False): NaN last, ties in any order
InOrder(a, b) == IsNaN(b) \/ PredGE(a, b)

RECURSIVE SortedOrders(_)
SortedOrders(recs) ==
    IF recs = {} THEN { << >> }
    ELSE UNION { { <<c>> \o s : s \in SortedOrders(recs \ {c}) } :
                 c \in { x \in recs : \A y \in recs \ {x} : InOrder(x, y) } }

\* variant of TopN: the sorted frame is not cut
TopNAll(s, n) == s

\* .head(n)
TopN(s, n) == head(s, n)

\* SELECT id, title FROM games
NoTitle == "NaN"
Title(G, g) == IF g \in G THEN <<"title", g>> ELSE NoTitle

\* SELECT game_id, AVG(rating) ... GROUP BY game_id, .round(2): in hundredths
AvgGreek(R, g) ==
    LET cnt == Cardinality({ u \in DOMAIN R : R[u][g] > 0 })
        tot == 100 * SumTo(LAMBDA u : R[u][g], Cardinality(DOMAIN R))
        q == tot \div cnt
        r == tot % cnt
    IN  IF 2 * r > cnt \/ (2 * r = cnt /\ q % 2 = 1) THEN q + 1 ELSE q

\* "Loved by {len(recs)} Greek users ... (top neighbours: ...)"
Reason(recs, neighbours) ==
    [loved_by |-> Len(recs),
     top_neighbours |-> [i \in DOMAIN head(neighbours, 3) |-> neighbours[i].other_user]]

Columns == <<"game_id", "title", "Predicted Rating", "avg_greek", "reason">>

\* the two left merges, the reason column and the column selection
Enrich(R, G, recs, neighbours) ==
    [i \in DOMAIN recs |->
        [game_id |-> recs[i].game_id,
         title |-> Title(G, recs[i].game_id),
         w_sum |-> recs[i].w_sum,
         sim_sum |-> recs[i].sim_sum,
         avg_greek |-> AvgGreek(R, recs[i].game_id),
         reason |-> Reason(recs, neighbours)]]

\* pd.DataFrame(): no rows and no columns
EmptyFrame == [columns |-> << >>, rows |-> << >>]

\* the candidates of steps 3 and 4, before the sort
Candidates(R, neighbours, username) ==
    MinSupport(Aggregate(MergeNeighbours(
        NeighRates(R, neighbours, Seen(R, username)), neighbours)))

\* every frame recommend_games can return, given the edge list
Recommendations(R, G, sim_df, username, n) ==
    LET neighbours == Neighbours(sim_df, username)
    IN  IF neighbours = << >> THEN { EmptyFrame }
        ELSE { [columns |-> Columns,
                rows |-> Enrich(R, G, TopN(s, n), neighbours)] :
               s \in SortedOrders(Candidates(R, neighbours, username)) }

\* ------------------------------------- ingestion (fetch_greek_ratings.py)
\* float(value) of the texts a rating element can carry; a text outside this
\* table raises ValueError
Numerals ==
    ("-3" :> -3) @@ ("0" :> 0) @@ ("4" :> 4) @@ ("5" :> 5) @@ ("6" :> 6) @@
    ("7" :> 7) @@ ("8" :> 8) @@ ("9" :> 9)

\* the items of a collection answer: game g carries the text vs[g]; the text
\* "nostats" stands for an item without a stats element, "norating" for a
\* stats element without a rating element, "" for a rating without a value,
\* "noid" for an item rated 7 that has no objectid attribute (objectid 0)
Items(vs) ==
    [g \in 1..Len(vs) |->
        [objectid |-> IF vs[g] = "noid" THEN 0 ELSE g,
         stats |-> vs[g] # "nostats",
         rating_elem |-> vs[g] \notin {"nostats", "norating"},
         value |-> IF vs[g] \in {"nostats", "norating"} THEN ""
                   ELSE IF vs[g] = "noid" THEN "7" ELSE vs[g]]]

Answered(status, vs) == [status |-> status, wellformed |-> TRUE, items |-> Items(vs)]

\* an answer whose body ET.fromstring rejects
Garbled(status) == [status |-> status, wellformed |-> FALSE, items |-> << >>]

\* what the server answers to the successive attempts of one fetch, the last
\* answer repeated; status 0 stands for a request that raised
ServerRuns ==
    { << Answered(202, << >>), Answered(200, <<"9", "7", "5", "8", "6", "N/A", "0">>) >>,
      << Answered(200, <<"8", "6", "6", "9", "5">>) >>,
      << Answered(200, <<"7", "7", "7", "7", "7">>) >>,
      << Answered(0, << >>),
         Answered(200, <<"", "abc", "-3", "nan", "5", "norating", "nostats">>) >>,
      << Answered(429, << >>) >> }

\* runs of a server that misbehaves: an HTTP error; requests that always
\* raise; a body that is not XML, then a good one; a rated item without
\* objectid, on every attempt; 202 for ever; a collection without items;
\* 429 until the last attempt, which is answered
FaultyRuns ==
    { << Answered(500, << >>) >>,
      << Answered(0, << >>) >>,
      << Garbled(200), Answered(200, <<"8", "6">>) >>,
      << Answered(200, <<"6", "noid", "9">>) >>,
      << Answered(202, << >>) >>,
      << Answered(200, << >>) >>,
      << Answered(429, << >>), Answered(429, << >>), Answered(429, << >>),
         Answered(429, << >>), Answered(429, << >>), Answered(200, <<"4", "9">>) >> }

Answer(run, attempt) == run[IF attempt < Len(run) THEN attempt ELSE Len(run)]

\* variant of KeepsRating: a rating of zero is kept too
KeepsRatingNonNegative(value) == value \in DOMAIN Numerals /\ Numerals[value] >= 0

\* rating = float(value); if rating > 0 (NaN compares false)
KeepsRating(value) == value \in DOMAIN Numerals /\ Numerals[value] > 0

\* the loop over the items of a parsed answer
RECURSIVE ParseItems(_)
ParseItems(items) ==
    IF items = << >> THEN << >>
    ELSE LET item == Head(items)
             rest == ParseItems(Tail(items))
         IN  IF ~item.stats \/ ~item.rating_elem THEN rest
             ELSE IF item.value = "" \/ item.value = "N/A" THEN rest
             ELSE IF KeepsRating(item.value)
             THEN << [game_id |-> item.objectid, rating |-> Numerals[item.value]] >>
                  \o rest
             ELSE rest

\* int(game_id) of an item that is kept, when the objectid is missing
ParseRaises(items) ==
    \E i \in DOMAIN items :
        /\ items[i].stats
        /\ items[i].rating_elem
        /\ items[i].value \notin {"", "N/A"}
        /\ KeepsRating(items[i].value)
        /\ items[i].objectid = 0

max_retries == 6

\* variant of Exhausted: one attempt more
ExhaustedLate(attempt) == attempt > max_retries + 1

\* for attempt in range(1, max_retries + 1): the loop is over
Exhausted(attempt) == attempt > max_retries

\* variant of Caught: only the errors of the request are caught
CaughtRequestOnly(kind) == kind = "RequestException"

\* except Exception
Caught(kind) == TRUE

\* what an attempt raises inside the try block, "" when nothing
Raised(answer) ==
    IF answer.status = 0 THEN "RequestException"
    ELSE IF answer.status # 200 THEN ""
    ELSE IF ~answer.wellformed THEN "ParseError"
    ELSE IF ParseRaises(answer.items) THEN "TypeError"
    ELSE ""

Outcome(ratings_, requests_, raised_) ==
    [ratings |-> ratings_, requests |-> requests_, raised |-> raised_]

\* the attempts from the given one on: the list returned, the number of
\* requests sent, and whether an exception left the function
RECURSIVE Attempt(_, _)
Attempt(run, attempt) ==
    IF Exhausted(attempt) THEN Outcome(<< >>, attempt - 1, FALSE)
    ELSE LET answer == Answer(run, attempt)
         IN  IF Raised(answer) # ""
             THEN IF ~Caught(Raised(answer)) THEN Outcome(<< >>, attempt, TRUE)
                  ELSE IF attempt = max_retries THEN Outcome(<< >>, attempt, FALSE)
                  ELSE Attempt(run, attempt + 1)
             ELSE IF answer.status \in {202, 429} THEN Attempt(run, attempt + 1)
             ELSE IF answer.status # 200 THEN Outcome(<< >>, attempt, FALSE)
             ELSE Outcome(ParseItems(answer.items), attempt, FALSE)

fetch_user_ratings(run) == Attempt(run, 1)

\* create_ratings_database: no row in ratings, no row in users (count 0)
EmptyStore == [rows |-> {}, seq |-> 0, users |-> [u \in Users |-> 0]]

\* a store holding the relation R, one row per rating
StoreOf(R) ==
    [rows |-> { [id |-> (u - 1) * NumGames + g, username |-> u, game_id |-> g,
                 rating |-> R[u][g]] :
                <<u, g>> \in { x \in (DOMAIN R) \X Games : R[x[1]][x[2]] > 0 } },
     seq |-> Cardinality(DOMAIN R) * NumGames,
     users |-> [u \in DOMAIN R |-> RatingCount(R, u)]]

\* variant of InsertOrReplaceRating: INSERT OR IGNORE, the stored row wins
InsertOrIgnoreRating(d, username, r) ==
    IF \E x \in d.rows : x.username = username /\ x.game_id = r.game_id
    THEN d
    ELSE [d EXCEPT !.rows = @ \cup { [id |-> d.seq + 1, username |-> username,
                                      game_id |-> r.game_id, rating |-> r.rating] },
                   !.seq = @ + 1]

\* INSERT OR REPLACE INTO ratings: the rows in conflict on UNIQUE(username,
\* game_id) are deleted and the row is inserted under the next id
InsertOrReplaceRating(d, username, r) ==
    [d EXCEPT !.rows = { x \in @ : ~(x.username = username /\ x.game_id = r.game_id) }
                       \cup { [id |-> d.seq + 1, username |-> username,
                               game_id |-> r.game_id, rating |-> r.rating] },
              !.seq = @ + 1]

\* for r in ratings: INSERT OR REPLACE INTO ratings
RECURSIVE InsertRatings(_, _, _)
InsertRatings(d, username, rs) ==
    IF rs = << >> THEN d
    ELSE InsertRatings(InsertOrReplaceRating(d, username, Head(rs)), username, Tail(rs))

\* variant of Rollback: what was written before the failure stays
RollbackNothing(before, working) == working

\* conn.rollback(): the store as it was when the transaction began
Rollback(before, working) == before

\* the store after save_user_ratings(username, rs); writing the rating number
\* fail_at raises (0: no write fails)
save_user_ratings(d, username, rs, fail_at) ==
    IF rs = << >> THEN d
    ELSE IF fail_at \in 1..Len(rs)
    THEN Rollback(d, InsertRatings([d EXCEPT !.users[username] = Len(rs)],
                                   username, SubSeq(rs, 1, fail_at - 1)))
    ELSE InsertRatings([d EXCEPT !.users[username] = Len(rs)], username, rs)

\* SELECT username, game_id, rating FROM ratings
ReadRatings(d) ==
    [u \in DOMAIN d.users |-> [g \in Games |->
        LET found == { x \in d.rows : x.username = u /\ x.game_id = g }
        IN  IF found = {} THEN 0 ELSE (CHOOSE x \in found : TRUE).rating]]

\* ------------------------------------------------- values before any run
NoFetch == [username |-> 0, run |-> << >>, requests |-> 0, raised |-> FALSE,
            ratings |-> << >>, fail_at |-> 0]

NoGuild == [pc |-> "idle", page |-> 0, attempt |-> 0, members |-> {}]

NoEnrich == [pc |-> "idle", batch |-> 0, attempt |-> 0, backoff |-> 0,
             requests |-> 0, waits |-> << >>, status |-> "", raised |-> "",
             outcomes |-> << >>, written |-> {}]

\* st.session_state after the first run of the script, before any click:
\* the flags and pages of lines 269-278 and the defaults of lines 455-477.
\* show_user_section is absent until a click sets it and is read with
\* .get(..., False): absent is FALSE here. has_rec_df says whether the key
\* rec_df is present. matching is COUNT(*) of the games for the filters the
\* session holds (no filter at first).
NewSession ==
    [show_hot_games |-> FALSE, show_search_results |-> FALSE,
     show_user_section |-> FALSE, db_page |-> 0, user_sub_view |-> "None",
     has_rec_df |-> FALSE, rec_df |-> EmptyFrame, max_results |-> 0,
     matching |-> MaxMatches]

\* the page of that first run: no section is shown
NoPage ==
    [user |-> "none", notice |-> "", error |-> "", view |-> "none",
     page |-> 0, total |-> 0, rows |-> 0, prev |-> FALSE, next |-> FALSE]

\* ---------------------------------------------------------- state machine
NoCall == [username |-> 0, n |-> 0, value |-> EmptyFrame, error |-> "none"]

Cached(username, n) == { c \in recCache : c.username = username /\ c.n = n }

Init ==
    /\ ratings \in Relations
    /\ games \in Catalogs
    /\ simCache = [cached |-> FALSE, value |-> << >>]
    /\ recCache = {}
    /\ ret = NoCall
    /\ calls = 0
    /\ db = StoreOf(ratings)
    /\ saves = << >>
    /\ processed = 0
    /\ call = NoFetch
    /\ guild = NoGuild
    /\ enrich = NoEnrich
    /\ session_state = NewSession
    /\ rendered = NoPage

\* a call of recommend_games(username, n), through st.cache_data
recommend_games(username, n) ==
    /\ calls < MaxCalls
    /\ calls' = calls + 1
    /\ UNCHANGED <<ratings, games>>
    /\ UNCHANGED store
    /\ UNCHANGED jobs
    /\ IF Cached(username, n) # {}
       THEN /\ ret' = [username |-> username, n |-> n, error |-> "",
                       value |-> (CHOOSE c \in Cached(username, n) : TRUE).value]
            /\ UNCHANGED <<simCache, recCache>>
       ELSE IF ~simCache.cached /\ BuildRaises(ratings)
       THEN /\ ret' = [username |-> username, n |-> n, error |-> "ValueError",
                       value |-> EmptyFrame]
            /\ UNCHANGED <<simCache, recCache>>
       ELSE LET sim_df == IF simCache.cached THEN simCache.value
                          ELSE build_user_similarity_matrix(ratings)
            IN  /\ simCache' = [cached |-> TRUE, value |-> sim_df]
                /\ \E v \in Recommendations(ratings, games, sim_df, username, n) :
                      /\ ret' = [username |-> username, n |-> n, error |-> "",
                                 value |-> v]
                      /\ recCache' = recCache \cup
                            { [username |-> username, n |-> n, value |-> v] }

Next ==
    \E username \in Users, n \in Counts :
        recommend_games(username, n) /\ UNCHANGED ui

Spec == Init /\ [][Next]_vars

\* The store from its creation: the ingestion job fills it while the app runs.
InitStore ==
    /\ db = EmptyStore
    /\ ratings = ReadRatings(db)
    /\ games = Games
    /\ simCache = [cached |-> FALSE, value |-> << >>]
    /\ recCache = {}
    /\ ret = NoCall
    /\ calls = 0
    /\ saves = << >>
    /\ processed = 0
    /\ call = NoFetch
    /\ guild = NoGuild
    /\ enrich = NoEnrich
    /\ session_state = NewSession
    /\ rendered = NoPage

\* one member of the loop of build_ratings_database_from_guild: the fetch,
\* and the save when the fetch gave ratings
build_ratings_database_from_guild(username, run, fail_at) ==
    /\ processed < MaxMembers
    /\ processed' = processed + 1
    /\ LET rs == fetch_user_ratings(run).ratings
       IN  IF rs # << >>
           THEN /\ db' = save_user_ratings(db, username, rs, fail_at)
                /\ saves' = IF fail_at \in 1..Len(rs) THEN saves
                            ELSE Append(saves, [username |-> username, ratings |-> rs])
                /\ ratings' = ReadRatings(db')
           ELSE UNCHANGED <<db, saves, ratings>>
    /\ UNCHANGED <<games, simCache, recCache, ret, calls, guild, enrich, ui>>

NextStore ==
    \/ \E username \in Users, run \in ServerRuns :
          build_ratings_database_from_guild(username, run, 0) /\ UNCHANGED call
    \/ \E username \in Users :
          recommend_games(username, RECOMMEND_COUNT) /\ UNCHANGED ui

\* ------------------------------------------------ the ingestion job alone
\* the job against every kind of server, with writes that may fail: the
\* server runs above and the faulty ones, for the first NumMembers users
InitIngest == InitStore

\* what the member of the loop just processed did: the fetch and the save
Fetched(username, run, fail_at) ==
    [username |-> username, run |-> run,
     requests |-> fetch_user_ratings(run).requests,
     raised |-> fetch_user_ratings(run).raised,
     ratings |-> fetch_user_ratings(run).ratings,
     fail_at |-> fail_at]

NextIngest ==
    \E username \in 1..NumMembers, run \in ServerRuns \cup FaultyRuns,
       fail_at \in 0..MaxFail :
        /\ build_ratings_database_from_guild(username, run, fail_at)
        /\ call' = Fetched(username, run, fail_at)

SpecIngest == InitIngest /\ [][NextIngest]_vars

\* --------------------------------------------------- fetch_guild_members
\* what the server does with one request for a page of the guild: the
\* statuses 202 and 429, a status raise_for_status rejects, a request that
\* raises, a 200 whose body is not XML, and the page itself, which lists
\* members up to page GuildPages and nobody after
GuildAnswers(page) ==
    {"202", "429", "HTTPError", "RequestException", "ParseError"}
        \cup (IF page <= GuildPages THEN {"members"} ELSE {"empty"})

guild_attempts == 5

NextPage(page) == IF page < MaxPage THEN page + 1 ELSE MaxPage

InitGuild == InitStore

\* members = [], page = 1, and the first pass of while True
fetch_guild_members ==
    /\ guild.pc = "idle"
    /\ guild' = [pc |-> "request", page |-> 1, attempt |-> 1, members |-> {}]
    /\ UNCHANGED <<ratings, games, simCache, recCache, ret, calls, store, call,
                   enrich, ui>>

\* one pass of for attempt in range(1, 6), with what follows the loop when
\* the pass is its last one; members holds the pages whose members were added
guild_request(answer) ==
    /\ guild.pc = "request"
    /\ guild' =
          IF answer \in {"202", "429", "HTTPError", "RequestException"}
          THEN IF guild.attempt < guild_attempts
               THEN [guild EXCEPT !.attempt = guild.attempt + 1]
               ELSE [guild EXCEPT !.page = NextPage(guild.page), !.attempt = 1]
          ELSE IF answer = "ParseError"
          THEN [guild EXCEPT !.page = NextPage(guild.page), !.attempt = 1]
          ELSE IF answer = "empty"
          THEN [guild EXCEPT !.pc = "returned"]
          ELSE [guild EXCEPT !.members = guild.members \cup {guild.page},
                             !.page = NextPage(guild.page), !.attempt = 1]
    /\ UNCHANGED <<ratings, games, simCache, recCache, ret, calls, store, call,
                   enrich, ui>>

NextGuild ==
    \/ fetch_guild_members
    \/ \E answer \in GuildAnswers(guild.page) : guild_request(answer)

\* the function runs on its own thread of control and no step of it blocks:
\* every sleep ends and every request is answered or times out (timeout=30)
SpecGuild == InitGuild /\ [][NextGuild]_vars /\ WF_vars(NextGuild)

\* ------------------------------------- enrich_bgg_db_v3: fetch_bgg_details
\* what one request of a batch meets: requests.get raises, the statuses 202,
\* 429 and another one that is not 200, a 200 whose body parses and a 200
\* whose body ET.fromstring rejects
BggAnswers == {"RequestException", "202", "429", "500", "200", "200 garbled"}

bgg_max_retries == 5

\* variant of NextBackoff: the wait grows by two seconds
NextBackoffLinear(backoff) == backoff + 2

\* backoff *= 2
NextBackoff(backoff) == backoff * 2

InitEnrich == InitStore

\* main takes the next batch of new games and calls fetch_bgg_details, which
\* sets attempt = 0 and backoff = 2
fetch_bgg_details ==
    /\ enrich.pc = "idle"
    /\ enrich.batch < NumBatches
    /\ enrich' = [enrich EXCEPT !.pc = "request", !.batch = enrich.batch + 1,
                                !.attempt = 0, !.backoff = 2, !.requests = 0,
                                !.waits = << >>, !.status = "", !.raised = ""]
    /\ UNCHANGED <<ratings, games, simCache, recCache, ret, calls, store, call,
                   guild, ui>>

\* one pass of while attempt <= max_retries: the request, and then either the
\* sleep of a failed attempt (with the RuntimeError that follows the loop
\* when it was the last one) or the parse of the body
bgg_request(answer) ==
    /\ enrich.pc = "request"
    /\ enrich.attempt <= bgg_max_retries
    /\ enrich' =
          IF answer = "200"
          THEN [enrich EXCEPT !.requests = enrich.requests + 1, !.status = answer,
                              !.pc = "returned"]
          ELSE IF answer = "200 garbled"
          THEN [enrich EXCEPT !.requests = enrich.requests + 1, !.status = answer,
                              !.pc = "raised", !.raised = "ParseError"]
          ELSE [enrich EXCEPT !.requests = enrich.requests + 1, !.status = answer,
                              !.attempt = enrich.attempt + 1,
                              !.waits = Append(enrich.waits, enrich.backoff),
                              !.backoff = NextBackoff(enrich.backoff),
                              !.pc = IF enrich.attempt + 1 <= bgg_max_retries
                                     THEN "request" ELSE "raised",
                              !.raised = IF enrich.attempt + 1 <= bgg_max_retries
                                         THEN "" ELSE "RuntimeError"]
    /\ UNCHANGED <<ratings, games, simCache, recCache, ret, calls, store, call,
                   guild, ui>>

\* main after the call: except Exception skips the batch, otherwise the games
\* of the batch are inserted
main_batch ==
    /\ enrich.pc \in {"returned", "raised"}
    /\ enrich' = [enrich EXCEPT
                     !.pc = "idle",
                     !.outcomes = Append(enrich.outcomes,
                                         IF enrich.pc = "returned" THEN "returned"
                                         ELSE enrich.raised),
                     !.written = IF enrich.pc = "returned"
                                 THEN enrich.written \cup {enrich.batch}
                                 ELSE enrich.written]
    /\ UNCHANGED <<ratings, games, simCache, recCache, ret, calls, store, call,
                   guild, ui>>

NextEnrich ==
    \/ fetch_bgg_details
    \/ \E answer \in BggAnswers : bgg_request(answer)
    \/ main_batch

SpecEnrich == InitEnrich /\ [][NextEnrich]_vars

\* ----------------------------------------------------------- the app's page
PAGE_SIZE == 50

\* the counts of matching games the filters can give, and the values of the
\* max_results input
Matches == {0, 40, MaxMatches}
Caps == {0, 60}

\* the two guilds of the app's runs: in the first, user 4 has three neighbours
\* who rated a game user 4 has not; in the second, user 4 has no rating at
\* all, hence no edge
UIRelations ==
    { [u \in Users |-> ProfileRow(a[u])] :
        a \in { << <<4, 5, 5, 4, 5, 5, 4>>, <<4, 5, 5, 4, 5, 5, 4>>,
                   <<5, 4, 4, 5, 4, 4, 5>>, <<5, 4, 5, 4, 0, 5, 4>> >>,
                << <<4, 5, 5, 4, 5, 5, 4>>, <<4, 5, 5, 4, 5, 5, 4>>,
                   <<5, 4, 4, 5, 4, 4, 5>>, << >> >> } }

Min(a, b) == IF a < b THEN a ELSE b

\* query_db_page: the effective total, and the number of rows of the page
query_db_page(ss, page) ==
    LET total_effective == IF ss.max_results > 0
                           THEN Min(ss.matching, ss.max_results)
                           ELSE ss.matching
        offset == page * PAGE_SIZE
    IN  IF total_effective = 0 THEN [total |-> 0, rows |-> 0]
        ELSE IF offset >= total_effective THEN [total |-> total_effective, rows |-> 0]
        ELSE [total |-> total_effective,
              rows |-> Min(PAGE_SIZE, total_effective - offset)]

\* rec_df.drop(columns=[column]): KeyError when the frame has no such column
DropColumn(frame, column) ==
    IF column \in Range(frame.columns) THEN "" ELSE "KeyError"

\* the user section of a run, after the handlers of its buttons: what it
\* shows, or the exception that ends the run
user_section(ss) ==
    IF ~ss.show_user_section THEN "none"
    ELSE IF ss.user_sub_view = "recommendations" /\ ss.has_rec_df
    THEN IF DropColumn(ss.rec_df, "game_id") = "" THEN "recommendations"
         ELSE DropColumn(ss.rec_df, "game_id")
    ELSE "form"

\* the rest of a run of the script from the session the handlers left: the
\* user section, then the search results or the hot games; notice is the
\* message of the handler that ran, raised the exception that left it
Page(ss, notice, raised) ==
    LET error == IF raised # "" THEN raised
                 ELSE IF user_section(ss) = "KeyError" THEN "KeyError" ELSE ""
        answer == query_db_page(ss, ss.db_page)
        view == IF error # "" THEN "none"
                ELSE IF ss.show_search_results
                THEN IF answer.total = 0 THEN "no results" ELSE "search"
                ELSE IF ss.show_hot_games THEN "hot" ELSE "none"
    IN  [user |-> IF raised # "" THEN "form" ELSE user_section(ss),
         notice |-> notice, error |-> error, view |-> view,
         page |-> IF view = "search" THEN ss.db_page ELSE 0,
         total |-> IF view = "search" THEN answer.total ELSE 0,
         rows |-> IF view = "search" THEN answer.rows ELSE 0,
         prev |-> view = "search" /\ ss.db_page > 0,
         next |-> view = "search" /\ (ss.db_page + 1) * PAGE_SIZE < answer.total]

\* a run of the script that leaves the session as ss
Run(ss, notice, raised) ==
    /\ session_state' = ss
    /\ rendered' = Page(ss, notice, raised)

model == <<ratings, games, simCache, recCache, ret, calls>>

InitUI ==
    /\ ratings \in UIRelations
    /\ games = Games
    /\ simCache = [cached |-> FALSE, value |-> << >>]
    /\ recCache = {}
    /\ ret = NoCall
    /\ calls = 0
    /\ db = StoreOf(ratings)
    /\ saves = << >>
    /\ processed = 0
    /\ call = NoFetch
    /\ guild = NoGuild
    /\ enrich = NoEnrich
    /\ session_state = NewSession
    /\ rendered = NoPage

\* variant of on_your_games: the search flag is left as it is
on_your_games_keeps_search(ss) ==
    [ss EXCEPT !.show_user_section = TRUE, !.show_hot_games = FALSE]

on_hot_games(ss) ==
    [ss EXCEPT !.show_hot_games = TRUE, !.show_search_results = FALSE,
               !.show_user_section = FALSE, !.user_sub_view = "None"]

on_your_games(ss) ==
    [ss EXCEPT !.show_user_section = TRUE, !.show_hot_games = FALSE,
               !.show_search_results = FALSE]

on_search(ss) ==
    [ss EXCEPT !.show_search_results = TRUE, !.show_hot_games = FALSE,
               !.show_user_section = FALSE, !.db_page = 0,
               !.user_sub_view = "None"]

hot_games_clicked ==
    /\ Run(on_hot_games(session_state), "", "")
    /\ UNCHANGED <<model, store, jobs>>

your_games_clicked ==
    /\ Run(on_your_games(session_state), "", "")
    /\ UNCHANGED <<model, store, jobs>>

\* every key is deleted and st.rerun() runs the script on the empty session
clear_clicked ==
    /\ Run(NewSession, "", "")
    /\ UNCHANGED <<model, store, jobs>>

search_clicked ==
    /\ Run(on_search(session_state), "", "")
    /\ UNCHANGED <<model, store, jobs>>

\* the Prev and Next buttons exist when the last run drew them; the click
\* runs the script up to the button, which sets db_page and reruns
prev_clicked ==
    /\ rendered.prev
    /\ Run([session_state EXCEPT !.db_page = session_state.db_page - 1], "", "")
    /\ UNCHANGED <<model, store, jobs>>

next_clicked ==
    /\ rendered.next
    /\ Run([session_state EXCEPT !.db_page = session_state.db_page + 1], "", "")
    /\ UNCHANGED <<model, store, jobs>>

\* a filter widget gets another value: the script reruns with no button
\* clicked; the cleared notice is that of the run before
filter_changed(matching) ==
    /\ matching # session_state.matching
    /\ Run([session_state EXCEPT !.matching = matching], "", "")
    /\ UNCHANGED <<model, store, jobs>>

max_results_changed(cap) ==
    /\ cap # session_state.max_results
    /\ Run([session_state EXCEPT !.max_results = cap], "", "")
    /\ UNCHANGED <<model, store, jobs>>

\* the button of the user section, with the username typed (0: none)
recommend_clicked(username) ==
    /\ session_state.show_user_section
    /\ IF username = 0
       THEN /\ Run(session_state, "error", "")
            /\ UNCHANGED <<model, store, jobs>>
       ELSE /\ recommend_games(username, RECOMMEND_COUNT)
            /\ IF ret'.error # ""
               THEN Run([session_state EXCEPT !.user_sub_view = "recommendations"],
                        "", ret'.error)
               ELSE Run([session_state EXCEPT !.user_sub_view = "recommendations",
                                              !.has_rec_df = TRUE,
                                              !.rec_df = ret'.value],
                        IF ret'.value.rows = << >> \/ ret'.value.columns = << >>
                        THEN "warning" ELSE "success",
                        "")

NextUI ==
    \/ hot_games_clicked
    \/ your_games_clicked
    \/ clear_clicked
    \/ search_clicked
    \/ prev_clicked
    \/ next_clicked
    \/ \E matching \in Matches : filter_changed(matching)
    \/ \E cap \in Caps : max_results_changed(cap)
    \/ \E username \in {0} \cup Users : recommend_clicked(username)

SpecUI == InitUI /\ [][NextUI]_vars

SpecStore == InitStore /\ [][NextStore]_vars

\* A guild larger than NEIGHBOURS, its ratings stored before the app starts.
InitCrowd ==
    /\ ratings \in CrowdRelations
    /\ games \in Catalogs
    /\ simCache = [cached |-> FALSE, value |-> << >>]
    /\ recCache = {}
    /\ ret = NoCall
    /\ calls = 0
    /\ db = StoreOf(ratings)
    /\ saves = << >>
    /\ processed = 0
    /\ call = NoFetch
    /\ guild = NoGuild
    /\ enrich = NoEnrich
    /\ session_state = NewSession
    /\ rendered = NoPage

NextCrowd ==
    \E username \in 1..NumTargets, n \in Counts :
        recommend_games(username, n) /\ UNCHANGED ui

SpecCrowd == InitCrowd /\ [][NextCrowd]_vars

\* ------------------------------------------------------------- properties
Returned == calls > 0 /\ ret.error = ""
Rows == ret.value.rows
RowGames == { Rows[i].game_id : i \in DOMAIN Rows }

\* the neighbourhood of the last call: the users of the active user's edges
Selected == { e.other_user : e \in Range(Neighbours(simCache.value, ret.username)) }

\* the selected neighbours that have a rating for g
Raters(g) == { v \in Selected : ratings[v][g] > 0 }

\* the number of games both u and v have a rating for
CoRated(u, v) == Cardinality({ g \in Games : ratings[u][g] > 0 /\ ratings[v][g] > 0 })

EdgeList == Range(simCache.value)

\* C1: no row returned by recommend_games(username, n) is a game the target
\* user has a rating for in the ratings relation.
C1_SeenNeverRecommended ==
    Returned => \A g \in RowGames : ratings[ret.username][g] = 0

\* a call returned rows while three neighbours had rated a game the target had seen
C1_Witness ==
    /\ Returned
    /\ Rows # << >>
    /\ \E g \in Games : ratings[ret.username][g] > 0 /\ Cardinality(Raters(g)) >= 3

\* C2: every returned game was rated by at least 3 distinct users of the
\* selected neighbourhood; a game rated by 1 or 2 of them is never returned.
C2_MinimumSupport ==
    Returned => \A g \in RowGames : Cardinality(Raters(g)) >= 3

\* a call left out an unseen game that exactly two selected neighbours rated
C2_Witness ==
    /\ Returned
    /\ \E g \in Games :
          /\ ratings[ret.username][g] = 0
          /\ Cardinality(Raters(g)) = 2
          /\ g \notin RowGames

\* C3: the returned rows are in non-increasing order of predicted rating:
\* each row's predicted rating is >= the next row's.
C3_SortedByPredicted ==
    Returned => \A i \in DOMAIN Rows :
                    i + 1 \in DOMAIN Rows => PredGE(Rows[i], Rows[i + 1])

\* C4: recommend_games(username, n) returns at most n rows.
C4_AtMostN == Returned => Len(Rows) <= ret.n

\* a call with two candidates and n = 1 returned one row
C4_Witness ==
    /\ Returned
    /\ Len(Rows) = ret.n
    /\ Cardinality(Candidates(ratings, Neighbours(simCache.value, ret.username),
                              ret.username)) > ret.n

\* C5: when the target username has no similarity edge, recommend_games
\* returns an empty result and raises no error.
C5_NoEdgeEmptyResult ==
    (/\ calls > 0
     /\ \A e \in Range(build_user_similarity_matrix(ratings)) :
            e.username # ret.username)
    => (ret.error = "" /\ Rows = << >>)

\* C6: the edge list is symmetric: with (u, v, s) it holds (v, u, s).
C6_Symmetric ==
    simCache.cached =>
        \A e \in EdgeList :
            [username |-> e.other_user, other_user |-> e.username,
             similarity |-> e.similarity] \in EdgeList

\* the edge list holds an edge of non-zero similarity
C6_Witness == simCache.cached /\ \E e \in EdgeList : e.similarity # 0

\* C7: no edge has username equal to other_user.
C7_NoSelfEdge ==
    simCache.cached => \A e \in EdgeList : e.username # e.other_user

\* the edge list was built for a user whose own overlap reaches MIN_OVERLAP
C7_Witness ==
    /\ simCache.cached
    /\ EdgeList # {}
    /\ \E u \in Users :
          Cardinality({ g \in Games : pivot(ratings)[u][g] # 0 }) >= MIN_OVERLAP

\* C8: for every edge (u, v) the number of games rated by both u and v is at
\* least MIN_OVERLAP; a user sharing at most 4 games with everyone has no edge.
C8_EdgeOverlap ==
    simCache.cached =>
        \A e \in EdgeList : CoRated(e.username, e.other_user) >= MIN_OVERLAP

\* edges were built while a user shared 4 games with one user, at most 4 with
\* every other, and is in no edge
C8_Witness ==
    /\ simCache.cached
    /\ EdgeList # {}
    /\ \E u \in Users :
          /\ \E v \in Users \ {u} : CoRated(u, v) = MIN_OVERLAP - 1
          /\ \A v \in Users \ {u} : CoRated(u, v) < MIN_OVERLAP
          /\ \A e \in EdgeList : e.username # u /\ e.other_user # u

\* C9: every pair of distinct users with at least MIN_OVERLAP common games
\* has an edge in each direction, with the same similarity.
C9_EdgeForEveryOverlap ==
    simCache.cached =>
        \A u, v \in Users :
            (u # v /\ CoRated(u, v) >= MIN_OVERLAP) =>
                \E e, f \in EdgeList :
                    /\ e.username = u /\ e.other_user = v
                    /\ f.username = v /\ f.other_user = u
                    /\ e.similarity = f.similarity

\* C10: every returned row has a strictly positive aggregate similarity.
C10_PositiveSimilaritySum ==
    Returned => \A i \in DOMAIN Rows : Rows[i].sim_sum > 0

\* two edge lists with the same edges, in the same order up to the edges of
\* one username that have equal similarity
SameUpToTies(a, b) ==
    /\ Len(a) = Len(b)
    /\ Range(a) = Range(b)
    /\ \A i \in DOMAIN a :
          a[i].username = b[i].username /\ a[i].similarity = b[i].similarity

C14_FewUsersEmptyEdges ==
    (calls > 0 /\ Cardinality(PivotIndex(ratings)) < 2) =>
        /\ ret.error = ""
        /\ simCache.cached
        /\ simCache.value = << >>

\* C15: every returned row's game_id has an entry in the games relation and
\* the row carries that entry's title.
C15_EveryRowTitled ==
    Returned => \A i \in DOMAIN Rows :
                    /\ Rows[i].game_id \in games
                    /\ Rows[i].title # NoTitle
                    /\ Rows[i].title = Title(games, Rows[i].game_id)

\* the edges of the active user of the last call, and those recommend_games
\* takes as the neighbourhood
EdgesOfTarget == Range(SelectSeq(simCache.value, LAMBDA e : e.username = ret.username))
Neighbourhood == Range(Neighbours(simCache.value, ret.username))

\* the similarity of the edge from the active user of the last call to v
SimTo(v) ==
    (CHOOSE e \in Range(Neighbours(simCache.value, ret.username)) :
        e.other_user = v).similarity

\* C19: for every returned game g, w_sum is the sum over the selected
\* neighbours that rated g of rating * similarity and sim_sum the sum of their
\* similarities, each of them counted once and nobody else counted; the
\* predicted rating is the quotient of the two.
C19_PredictedRating ==
    Returned => \A i \in DOMAIN Rows :
        /\ Rows[i].w_sum =
               SumRows(LAMBDA v : ratings[v][Rows[i].game_id] * SimTo(v),
                       Raters(Rows[i].game_id))
        /\ Rows[i].sim_sum = SumRows(LAMBDA v : SimTo(v), Raters(Rows[i].game_id))

\* a returned game was rated by selected neighbours of different similarity,
\* and also by a user with an edge to the target that is not in the
\* neighbourhood
C19_Witness ==
    /\ Returned
    /\ \E i \in DOMAIN Rows :
          /\ Rows[i].sim_sum > 0
          /\ \E v, w \in Raters(Rows[i].game_id) : SimTo(v) # SimTo(w)
          /\ \E e \in EdgesOfTarget \ Neighbourhood :
                ratings[e.other_user][Rows[i].game_id] > 0

\* a step in which recommend_games returned without raising
CallReturns == calls' = calls + 1 /\ ret'.error = ""

\* C11: each call of recommend_games returns the result computed from the
\* ratings relation as it stands at the time of the call: the edges it uses
\* and the frame it returns are those of the current relation, whatever saves
\* and calls came before.
C11_FreshPerCall ==
    [][CallReturns =>
        /\ ~BuildRaises(ratings)
        /\ simCache'.value = build_user_similarity_matrix(ratings)
        /\ ret'.value \in Recommendations(ratings, games,
               build_user_similarity_matrix(ratings), ret'.username, ret'.n)]_vars

\* a step in which build_user_similarity_matrix ran
BuildRuns == ~simCache.cached /\ simCache'.cached

\* C13: when build_user_similarity_matrix runs, every two distinct users with
\* identical rating vectors get similarity 1.0.
C13_IdenticalVectorsSimilarityOne ==
    [][BuildRuns =>
        \A x, y \in PivotRows(ratings) :
            (x.username # y.username /\ ratings[x.username] = ratings[y.username])
                => cosine_similarity(x, y) = SimScale]_vars

\* the ratings stored for username, as the set of (game_id, rating)
StoredFor(d, username) ==
    { [game_id |-> x.game_id, rating |-> x.rating] :
        x \in { y \in d.rows : y.username = username } }

\* C16: after save_user_ratings(u, R) the ratings stored for u are exactly R,
\* and the ratings of every other user are as before the save.
C16_SaveReplacesUser ==
    [][saves' # saves =>
        LET last == saves'[Len(saves')]
        IN  /\ StoredFor(db', last.username) = Range(last.ratings)
            /\ \A v \in Users \ {last.username} :
                   StoredFor(db', v) = StoredFor(db, v)]_vars

\* the saves of username that contained game_id, by their place in the log
SavesOf(username, game_id) ==
    { i \in DOMAIN saves :
        /\ saves[i].username = username
        /\ \E r \in Range(saves[i].ratings) : r.game_id = game_id }

Latest(S) == CHOOSE i \in S : \A j \in S : j <= i

\* C17: the ratings relation holds at most one row per (username, game_id),
\* and that row carries the rating of the most recent save that contained
\* the pair.
C17_OneRowLatestRating ==
    /\ \A x, y \in db.rows :
          (x.username = y.username /\ x.game_id = y.game_id) => x = y
    /\ \A u \in Users, g \in Games :
          SavesOf(u, g) # {} =>
              \E x \in db.rows :
                  /\ x.username = u
                  /\ x.game_id = g
                  /\ [game_id |-> g, rating |-> x.rating]
                         \in Range(saves[Latest(SavesOf(u, g))].ratings)

\* a pair was saved twice, with two different ratings
C17_Witness ==
    \E u \in Users, g \in Games :
        \E i, j \in SavesOf(u, g) :
            /\ i < j
            /\ Range(saves[i].ratings) \cap Range(saves[j].ratings) = {}

\* C18: every rating the ingestion job has written is strictly greater than 0:
\* items with a missing, 'N/A', non-numeric, zero or negative value are never
\* stored.
C18_StoredRatingsPositive ==
    \A x \in db.rows : x.rating > 0

\* an answer with a zero and an 'N/A' rating was saved: its five rated games
\* are stored and the games 6 and 7 are not
C18_Witness ==
    \E u \in Users :
        /\ { x.game_id : x \in StoredFor(db, u) } = 1..5
        /\ \E i \in DOMAIN saves :
              saves[i].username = u /\ saves[i].ratings[1].rating = 9

\* C20: the neighbourhood is at most NEIGHBOURS of the target user's edges,
\* and no edge of the target user left out of it has a similarity strictly
\* greater than that of an edge in it.
C20_TopNeighbours ==
    Returned =>
        /\ Cardinality(Neighbourhood) <= NEIGHBOURS
        /\ Neighbourhood \subseteq EdgesOfTarget
        /\ \A e \in EdgesOfTarget \ Neighbourhood, f \in Neighbourhood :
               e.similarity <= f.similarity

\* the target user has more than NEIGHBOURS edges, and an edge left out has
\* a smaller similarity than one taken
C20_Witness ==
    /\ Returned
    /\ Rows # << >>
    /\ Cardinality(EdgesOfTarget) > NEIGHBOURS
    /\ \E e \in EdgesOfTarget \ Neighbourhood, f \in Neighbourhood :
          e.similarity < f.similarity

\* C21: the edge list returned by build_user_similarity_matrix is ordered by
\* username ascending and, within one username, by similarity non-increasing
\* (each edge against the next one, which gives every pair).
C21_EdgesSorted ==
    simCache.cached =>
        \A i \in DOMAIN simCache.value :
            i < Len(simCache.value) =>
                LET e == simCache.value[i]
                    f == simCache.value[i + 1]
                IN  /\ e.username <= f.username
                    /\ e.username = f.username => e.similarity >= f.similarity

\* the list has edges of several usernames, and one username has edges of
\* different similarity
C21_Witness ==
    /\ simCache.cached
    /\ \E e, f \in EdgeList : e.username # f.username
    /\ \E e, f \in EdgeList : e.username = f.username /\ e.similarity > f.similarity

\* the lowest and the highest rating the selected neighbours gave to game g
LowestRating(g) ==
    CHOOSE x \in { ratings[v][g] : v \in Raters(g) } :
        \A v \in Raters(g) : x <= ratings[v][g]
HighestRating(g) ==
    CHOOSE x \in { ratings[v][g] : v \in Raters(g) } :
        \A v \in Raters(g) : x >= ratings[v][g]

\* pred = w_sum / sim_sum lies between lo and hi
PredBetween(c, lo, hi) ==
    /\ IsFinite(c)
    /\ lo * Den(c) <= Num(c)
    /\ Num(c) <= hi * Den(c)

\* C23: the predicted rating of every returned row lies between the lowest
\* and the highest rating that the contributing neighbours gave to the game.
C23_PredictedWithinRatings ==
    Returned => \A i \in DOMAIN Rows :
        PredBetween(Rows[i], LowestRating(Rows[i].game_id),
                    HighestRating(Rows[i].game_id))

\* the same bounds, asked only of the rows whose aggregate similarity is
\* strictly positive
PositiveSumWithinRatings ==
    Returned => \A i \in DOMAIN Rows :
        Rows[i].sim_sum > 0 =>
            PredBetween(Rows[i], LowestRating(Rows[i].game_id),
                        HighestRating(Rows[i].game_id))

\* C25: for every user in the users table, users.ratings_count equals the
\* number of rows stored in the ratings relation for that user.
C25_RatingsCountMatchesRows ==
    \A u \in Users :
        db.users[u] > 0 =>
            db.users[u] = Cardinality({ r \in db.rows : r.username = u })

\* a step of the ingestion job in which save_user_ratings was called and the
\* write of one of the ratings failed
SaveFailed == call'.ratings # << >> /\ call'.fail_at \in 1..Len(call'.ratings)

\* a step of the ingestion job with nothing to save (the guild loop calls
\* save_user_ratings only with a non-empty list, and the function returns
\* at once on an empty one)
SaveEmpty == processed' = processed + 1 /\ call'.ratings = << >>

\* C26: save_user_ratings is all-or-nothing: when the write of a rating of the
\* batch fails, the users row and every rating row are as before the call;
\* a call with an empty list changes nothing.
C26_SaveAllOrNothing ==
    [][(SaveFailed \/ SaveEmpty) => db' = db]_vars

\* a save failed at its second rating, for a user who had rows stored, one of
\* them with another rating than the batch has for that game
C26_Witness ==
    /\ call.fail_at = 2
    /\ Len(call.ratings) >= 2
    /\ \E x \in db.rows :
          /\ x.username = call.username
          /\ x.game_id = call.ratings[1].game_id
          /\ x.rating # call.ratings[1].rating
    /\ db.users[call.username] # Len(call.ratings)

\* an attempt that was answered 200 with a body that parsed
Parsed(answer) == answer.status = 200 /\ Raised(answer) = ""

\* C27: fetch_user_ratings sends at most max_retries requests, never raises
\* to its caller, and returns the empty list when no attempt produced a 200
\* response that parsed.
C27_FetchBoundedNeverRaises ==
    /\ call.requests <= max_retries
    /\ ~call.raised
    /\ (call.run # << >> /\ \A a \in 1..max_retries : ~Parsed(Answer(call.run, a)))
          => call.ratings = << >>

\* a fetch that used all its attempts, some of which raised, and came back
\* empty; the raise was not one of the request
C27_Witness ==
    /\ call.requests = max_retries
    /\ call.ratings = << >>
    /\ \E a \in 1..max_retries : Raised(Answer(call.run, a)) = "TypeError"

\* C24: fetch_guild_members eventually returns, whatever the server answers.
C24_GuildMembersReturns == <>(guild.pc = "returned")

\* 2 ^ i
RECURSIVE PowerOfTwo(_)
PowerOfTwo(i) == IF i = 0 THEN 1 ELSE 2 * PowerOfTwo(i - 1)

\* the call of fetch_bgg_details for the current batch is over
BggCallOver == enrich.pc \in {"returned", "raised"}

\* what holds of fetch_bgg_details and its caller whatever the body of a 200:
\* at most max_retries + 1 requests; the waits are 2, 4, 8, ...; one wait per
\* failed attempt; RuntimeError exactly when max_retries + 1 attempts failed;
\* only the batches whose call returned are written
BggRetries ==
    /\ enrich.requests <= bgg_max_retries + 1
    /\ Len(enrich.waits) = enrich.attempt
    /\ \A i \in DOMAIN enrich.waits : enrich.waits[i] = PowerOfTwo(i)
    /\ BggCallOver =>
          (enrich.raised = "RuntimeError" <=>
              (enrich.attempt = bgg_max_retries + 1
                  /\ enrich.requests = bgg_max_retries + 1
                  /\ enrich.status \notin {"200", "200 garbled"}))
    /\ \A b \in 1..Len(enrich.outcomes) :
          b \in enrich.written <=> enrich.outcomes[b] = "returned"

\* C28, as the code has it: the retries, waits and RuntimeError as stated, and
\* the call returns at the first 200 response whose body parses; a 200
\* response whose body does not parse raises ParseError at once, and the
\* caller skips that batch too.
C28_FetchBggDetails ==
    /\ BggRetries
    /\ BggCallOver =>
          /\ enrich.pc = "returned" <=> enrich.status = "200"
          /\ enrich.raised = "ParseError" <=> enrich.status = "200 garbled"
          /\ enrich.status \in {"200", "200 garbled"}
                => enrich.requests = enrich.attempt + 1

\* C28, as stated: the call returns at the first 200 response, and raises
\* (RuntimeError) only when every attempt failed.
C28_ReturnsAtFirst200 ==
    /\ BggRetries
    /\ BggCallOver =>
          /\ enrich.pc = "returned" <=> enrich.status \in {"200", "200 garbled"}
          /\ enrich.pc = "raised" => enrich.raised = "RuntimeError"

\* a call raised RuntimeError after max_retries + 1 requests and waits, an
\* earlier batch was returned and written, and another met a 200 that did
\* not parse and was skipped
C28_Witness ==
    /\ enrich.raised = "RuntimeError"
    /\ Len(enrich.waits) = bgg_max_retries + 1
    /\ enrich.written # {}
    /\ \E b \in DOMAIN enrich.outcomes :
          enrich.outcomes[b] = "ParseError" /\ b \notin enrich.written

\* C22: a click on 'Recommended for you!' for which recommend_games returns
\* its empty result ends the run without an unhandled error: the warning is
\* shown and the recommendations view renders.
C22_EmptyResultRenders ==
    (rendered.notice = "warning" /\ session_state.rec_df = EmptyFrame) =>
        /\ rendered.error = ""
        /\ rendered.user = "recommendations"

\* the flags of the session that are true
ShownSections ==
    { f \in {"show_search_results", "show_hot_games", "show_user_section"} :
        session_state[f] }

\* C29: at most one of show_search_results, show_hot_games and
\* show_user_section is true.
C29_OneSectionShown == Cardinality(ShownSections) <= 1

\* the user section is shown after the search results were, the page of the
\* search being kept
C29_Witness ==
    /\ session_state.show_user_section
    /\ session_state.db_page > 0

\* C30: whenever the search results are displayed with a non-zero total, the
\* page is in range and not empty.
C30_PageInRange ==
    rendered.view = "search" =>
        /\ rendered.page >= 0
        /\ rendered.page * PAGE_SIZE < rendered.total
        /\ rendered.rows > 0

====
